---- MODULE Spec2Model ----
(***************************************************************************)
(* Model of the clone pipeline of backend/app/main.py:                     *)
(*   is_valid_url -> scrape_website -> generate_clone -> size gate ->      *)
(*   save_clone, driven by clone_website, plus direct calls of             *)
(*   scrape_website and generate_clone with arbitrary arguments.           *)
(* A behaviour is one call, made in a process that starts either on an     *)
(* empty clones directory and error log or on what an earlier run left.    *)
(*                                                                         *)
(* Long strings (CSS, page content, model responses) are run-length        *)
(* encoded: a string is a sequence of runs [c |-> character, n |-> count]  *)
(* in which adjacent runs carry different characters.  Short strings       *)
(* (hostnames, error messages) are plain sequences of characters.          *)
(***************************************************************************)
EXTENDS Integers, Sequences, FiniteSets, TLC

\* ------------------------------------------------------------------------
\* Bounds of the model
\* ------------------------------------------------------------------------
MaxRetriesArg == 3      \* largest max_retries passed to a direct scrape_website call
MaxCalls      == 4      \* cap on the generation calls recorded for one generate_clone

\* ------------------------------------------------------------------------
\* Program constants
\* ------------------------------------------------------------------------
MAX_CSS_LENGTH      == 10000
TRUNCATE_MAX_LENGTH == 10000
DEFAULT_MAX_RETRIES == 3
DEFAULT_TIMEOUT     == 20
MAX_HTML_BYTES      == 1000000
LONG_RUN_MIN        == 1000

\* ------------------------------------------------------------------------
\* Run-length encoded strings
\* ------------------------------------------------------------------------
R(c, n) == [c |-> c, n |-> n]

Run(c, n) == IF n = 0 THEN << >> ELSE << R(c, n) >>

\* s + t
Cat(s, t) ==
  IF s = << >> THEN t
  ELSE IF t = << >> THEN s
  ELSE IF s[Len(s)].c = t[1].c
       THEN SubSeq(s, 1, Len(s) - 1)
            \o << R(t[1].c, s[Len(s)].n + t[1].n) >>
            \o SubSeq(t, 2, Len(t))
       ELSE s \o t

RECURSIVE StrLen(_)
\* len(s)
StrLen(s) == IF s = << >> THEN 0 ELSE s[1].n + StrLen(Tail(s))

RECURSIVE Take(_, _)
\* s[:k]
Take(s, k) ==
  IF k <= 0 \/ s = << >> THEN << >>
  ELSE IF s[1].n >= k THEN << R(s[1].c, k) >>
  ELSE << s[1] >> \o Take(Tail(s), k - s[1].n)

RECURSIVE Drop(_, _)
\* s[k:]
Drop(s, k) ==
  IF s = << >> THEN << >>
  ELSE IF k <= 0 THEN s
  ELSE IF s[1].n > k THEN << R(s[1].c, s[1].n - k) >> \o Tail(s)
  ELSE Drop(Tail(s), k - s[1].n)

RECURSIVE FromChars(_)
\* the string made of the characters cs, in order
FromChars(cs) ==
  IF cs = << >> THEN << >>
  ELSE Cat(FromChars(SubSeq(cs, 1, Len(cs) - 1)), Run(cs[Len(cs)], 1))

\* number of bytes of one character in UTF-8; a non-ASCII character is
\* written by its code point
Utf8Width(c) ==
  CASE c = "U+00E9" -> 2
    [] c = "U+20AC" -> 3
    [] c = "U+1D11E" -> 4
    [] OTHER -> 1

RECURSIVE Utf8Len(_)
\* len(s.encode('utf-8'))
Utf8Len(s) == IF s = << >> THEN 0 ELSE s[1].n * Utf8Width(s[1].c) + Utf8Len(Tail(s))

Whitespace == {" ", "\n", "\t", "\r"}

RECURSIVE LStrip(_)
LStrip(s) == IF s # << >> /\ s[1].c \in Whitespace THEN LStrip(Tail(s)) ELSE s

RECURSIVE RStrip(_)
RStrip(s) ==
  IF s # << >> /\ s[Len(s)].c \in Whitespace
  THEN RStrip(SubSeq(s, 1, Len(s) - 1)) ELSE s

\* s.strip()
Strip(s) == RStrip(LStrip(s))

\* ------------------------------------------------------------------------
\* Short strings: sequences of characters
\* ------------------------------------------------------------------------
UpperCase == << "A", "B", "C", "D", "E", "F", "G", "H", "I", "J", "K", "L", "M",
                "N", "O", "P", "Q", "R", "S", "T", "U", "V", "W", "X", "Y", "Z" >>
LowerCase == << "a", "b", "c", "d", "e", "f", "g", "h", "i", "j", "k", "l", "m",
                "n", "o", "p", "q", "r", "s", "t", "u", "v", "w", "x", "y", "z" >>
Digits    == << "0", "1", "2", "3", "4", "5", "6", "7", "8", "9" >>

Range(f) == { f[i] : i \in DOMAIN f }

\* c.lower()
LowerChar(c) ==
  IF \E i \in 1..26 : UpperCase[i] = c
  THEN LowerCase[CHOOSE i \in 1..26 : UpperCase[i] = c]
  ELSE c

\* t.lower()
Lower(t) == [i \in 1..Len(t) |-> LowerChar(t[i])]

\* sub in t
Contains(sub, t) ==
  \E i \in 1..(Len(t) - Len(sub) + 1) : SubSeq(t, i, i + Len(sub) - 1) = sub

\* t.startswith(prefix)
StartsWith(t, prefix) ==
  Len(t) >= Len(prefix) /\ SubSeq(t, 1, Len(prefix)) = prefix

\* ------------------------------------------------------------------------
\* is_valid_url.  A URL is given by what urlparse makes of it: its scheme
\* and its hostname (the empty sequence when urlparse finds none).
\* ------------------------------------------------------------------------
PRIVATE_IP_PREFIXES == {
  << "1", "0", "." >>, << "1", "7", "2", ".", "1", "6", "." >>, << "1", "7", "2", ".", "1", "7", "." >>, << "1", "7", "2", ".", "1", "8", "." >>, << "1", "7", "2", ".", "1", "9", "." >>, << "1", "7", "2", ".", "2", "0", "." >>, << "1", "7", "2", ".", "2", "1", "." >>,
  << "1", "7", "2", ".", "2", "2", "." >>, << "1", "7", "2", ".", "2", "3", "." >>, << "1", "7", "2", ".", "2", "4", "." >>, << "1", "7", "2", ".", "2", "5", "." >>, << "1", "7", "2", ".", "2", "6", "." >>, << "1", "7", "2", ".", "2", "7", "." >>, << "1", "7", "2", ".", "2", "8", "." >>,
  << "1", "7", "2", ".", "2", "9", "." >>, << "1", "7", "2", ".", "3", "0", "." >>, << "1", "7", "2", ".", "3", "1", "." >>, << "1", "9", "2", ".", "1", "6", "8", "." >>, << "1", "2", "7", "." >>, << "1", "6", "9", ".", "2", "5", "4", "." >> }

LOCALHOST == << "l", "o", "c", "a", "l", "h", "o", "s", "t" >>

is_valid_url(url) ==
  IF url.scheme \notin {"http", "https"} THEN FALSE
  ELSE IF url.hostname = << >> THEN FALSE
  ELSE IF url.hostname = LOCALHOST
          \/ \E prefix \in PRIVATE_IP_PREFIXES : StartsWith(url.hostname, prefix)
       THEN FALSE
  ELSE TRUE

\* ------------------------------------------------------------------------
\* truncate_css, truncate_content
\* ------------------------------------------------------------------------
truncate_css(css, max_length) ==
  IF StrLen(css) > max_length THEN Take(css, max_length) ELSE css

\* the content is never cut
truncate_content_whole(content, max_length) == content

truncate_content(content, max_length) ==
  IF StrLen(content) > max_length THEN Take(content, max_length) ELSE content

\* ------------------------------------------------------------------------
\* Searching run-length encoded strings.  Positions count characters from 1.
\* ------------------------------------------------------------------------
RECURSIVE CharAt(_, _)
\* s[i - 1]
CharAt(s, i) == IF i <= s[1].n THEN s[1].c ELSE CharAt(Tail(s), i - s[1].n)

\* s[i - 1 : j]
Sub(s, i, j) == Take(Drop(s, i - 1), j - i + 1)

RECURSIVE RunEnds(_, _)
\* the positions of the last character of each run (base is the number of
\* characters before s)
RunEnds(s, base) ==
  IF s = << >> THEN {}
  ELSE {base + s[1].n} \cup RunEnds(Tail(s), base + s[1].n)

RECURSIVE RunStarts(_, _)
RunStarts(s, base) ==
  IF s = << >> THEN {}
  ELSE {base + 1} \cup RunStarts(Tail(s), base + s[1].n)

\* The leftmost occurrence of a literal at or after from starts at from, at
\* the first or at the last character of a run: these are the positions to
\* try.
Candidates(s, from) ==
  { p \in {from} \cup RunStarts(s, 0) \cup RunEnds(s, 0) : p >= from /\ p <= StrLen(s) }

\* the literal lit (a sequence of characters) stands at position p of s
LitAt(s, lit, p) ==
  /\ p >= 1
  /\ p + Len(lit) - 1 <= StrLen(s)
  /\ \A k \in 1..Len(lit) : CharAt(s, p + k - 1) = lit[k]

\* the same, ignoring case (lit is in lower case)
LitAtIgnoreCase(s, lit, p) ==
  /\ p >= 1
  /\ p + Len(lit) - 1 <= StrLen(s)
  /\ \A k \in 1..Len(lit) : LowerChar(CharAt(s, p + k - 1)) = lit[k]

Min(S) == CHOOSE x \in S : \A y \in S : x <= y

\* position of the leftmost occurrence of lit at or after from, 0 if none
Find(s, lit, from) ==
  LET hits == { p \in Candidates(s, from) : LitAt(s, lit, p) }
  IN  IF hits = {} THEN 0 ELSE Min(hits)

FindIgnoreCase(s, lit, from) ==
  LET hits == { p \in Candidates(s, from) : LitAtIgnoreCase(s, lit, p) }
  IN  IF hits = {} THEN 0 ELSE Min(hits)

RECURSIVE SpanOf(_, _, _)
\* number of consecutive characters of s from position p on that are in set
SpanOf(s, set, p) ==
  IF s = << >> THEN 0
  ELSE IF p > s[1].n THEN SpanOf(Tail(s), set, p - s[1].n)
  ELSE IF s[1].c \notin set THEN 0
  ELSE (s[1].n - p + 1) + SpanOf(Tail(s), set, 1)

\* ------------------------------------------------------------------------
\* extract_html_from_ai_response
\* ------------------------------------------------------------------------
\* three grave accents (U+0060)
Fence    == << "U+0060", "U+0060", "U+0060" >>
HtmlWord == << "h", "t", "m", "l" >>
HtmlOpen == << "<", "h", "t", "m", "l" >>
HtmlEnd  == << "<", "/", "h", "t", "m", "l", ">" >>

\* re.search(r"FENCE(?:html)?\s*([\s\S]+?)FENCE", text): the span of group 1,
\* << 0, 0 >> when there is no match.  The match starts at the leftmost
\* fence; "html" is taken if that leads to a match, then as much white space
\* as leads to a match, then the shortest group.
CodeBlock(text) ==
  LET i == Find(text, Fence, 1)
      Word(h) == h = 0 \/ LitAt(text, HtmlWord, i + 3)
      Space(h) == SpanOf(text, Whitespace, i + 3 + 4 * h)
      Start(h, w) == i + 3 + 4 * h + w
      Close(h, w) == Find(text, Fence, Start(h, w) + 1)
      options == { o \in (0..1) \X (0..StrLen(text)) :
                     /\ Word(o[1])
                     /\ o[2] <= Space(o[1])
                     /\ Close(o[1], o[2]) # 0 }
      Better(a, b) == a[1] > b[1] \/ (a[1] = b[1] /\ a[2] >= b[2])
  IN  IF i = 0 \/ options = {} THEN << 0, 0 >>
      ELSE LET o == CHOOSE a \in options : \A b \in options : Better(a, b)
           IN  << Start(o[1], o[2]), Close(o[1], o[2]) - 1 >>

\* re.search(r"(<html[\s\S]+?</html>)", text, re.IGNORECASE): the span of
\* the match, << 0, 0 >> when there is none
HtmlBlock(text) ==
  LET i == FindIgnoreCase(text, HtmlOpen, 1)
      e == IF i = 0 THEN 0 ELSE FindIgnoreCase(text, HtmlEnd, i + 6)
  IN  IF i = 0 \/ e = 0 THEN << 0, 0 >> ELSE << i, e + 6 >>

\* lines 155-168
extract_html_from_ai_response(text) ==
  LET code_block == CodeBlock(text)
      html_block == HtmlBlock(text)
  IN  IF code_block # << 0, 0 >> THEN Strip(Sub(text, code_block[1], code_block[2]))
      ELSE IF html_block # << 0, 0 >> THEN Strip(Sub(text, html_block[1], html_block[2]))
      ELSE Strip(text)

\* ------------------------------------------------------------------------
\* clean_generated_html
\* ------------------------------------------------------------------------
Base64Chars == Range(UpperCase) \cup Range(LowerCase) \cup Range(Digits) \cup {"+", "/"}

RECURSIVE Base64Prefix(_)
\* number of leading runs of s that are made of base64-alphabet characters
Base64Prefix(s) ==
  IF s # << >> /\ s[1].c \in Base64Chars THEN 1 + Base64Prefix(Tail(s)) ELSE 0

RECURSIVE RemoveLongRuns(_)
\* re.sub(r'[A-Za-z0-9+/]{1000,}', '', html)
RemoveLongRuns(s) ==
  IF s = << >> THEN << >>
  ELSE LET k == Base64Prefix(s) IN
       IF k = 0 THEN Cat(<< s[1] >>, RemoveLongRuns(Tail(s)))
       ELSE IF StrLen(SubSeq(s, 1, k)) >= LONG_RUN_MIN
            THEN RemoveLongRuns(SubSeq(s, k + 1, Len(s)))
            ELSE Cat(SubSeq(s, 1, k), RemoveLongRuns(SubSeq(s, k + 1, Len(s))))

UrlOpen         == << "u", "r", "l", "(" >>
DataImage       == << "d", "a", "t", "a", ":", "i", "m", "a", "g", "e" >>
CloseParen      == << ")" >>
BackgroundImage == << "b", "a", "c", "k", "g", "r", "o", "u", "n", "d", "-", "i", "m", "a", "g", "e", ":" >>
ContentProperty == << "c", "o", "n", "t", "e", "n", "t", ":" >>
StyleOpen       == << "<", "s", "t", "y", "l", "e" >>
StyleEnd        == << "<", "/", "s", "t", "y", "l", "e", ">" >>
TagEnd          == << ">" >>
StyleTag        == FromChars(<< "<", "s", "t", "y", "l", "e", ">" >>)
QuoteChars      == {"'", "\""}

\* url\([^)]{1000,}\) at position p: the position of its last character, 0
\* when it does not match there
LongUrlAt(s, p) ==
  LET c == Find(s, CloseParen, p + 4)
  IN  IF LitAt(s, UrlOpen, p) /\ c >= p + 4 + LONG_RUN_MIN THEN c ELSE 0

\* The patterns of the substitutions, in the order of the calls.
Patterns == << "data_url", "base64", "style", "background_image", "content", "long_url",
               "double_quotes", "single_quotes" >>

\* the literal each pattern begins with
Lead(pattern) ==
  CASE pattern = "data_url"         -> UrlOpen
    [] pattern = "style"            -> StyleOpen
    [] pattern = "background_image" -> BackgroundImage
    [] pattern = "content"          -> ContentProperty
    [] pattern = "long_url"         -> UrlOpen

\* the position of the last character of the match of pattern that starts
\* at p, 0 when it does not match there
MatchAt(pattern, s, p) ==
  CASE pattern = "data_url" ->
         \* line 248: url\(['"]?data:image[^)]+\)
         LET quoted == p + 4 <= StrLen(s) /\ CharAt(s, p + 4) \in QuoteChars
             d == IF quoted THEN p + 5 ELSE p + 4
             c == Find(s, CloseParen, d + Len(DataImage))
         IN  IF LitAt(s, DataImage, d) /\ c >= d + Len(DataImage) + 1 THEN c ELSE 0
    [] pattern = "style" ->
         \* line 254: <style[^>]*>(?!.*</style>)
         LET c == Find(s, TagEnd, p + Len(StyleOpen))
             nl == Find(s, << "\n" >>, c + 1)
             eol == IF nl = 0 THEN StrLen(s) ELSE nl - 1
             e == Find(s, StyleEnd, c + 1)
         IN  IF c # 0 /\ ~(e # 0 /\ e + Len(StyleEnd) - 1 <= eol) THEN c ELSE 0
    [] pattern = "background_image" ->
         \* line 258: background-image:\s*url\([^)]{1000,}\)
         LongUrlAt(s, p + Len(BackgroundImage)
                        + SpanOf(s, Whitespace, p + Len(BackgroundImage)))
    [] pattern = "content" ->
         \* line 259: content:\s*url\([^)]{1000,}\)
         LongUrlAt(s, p + Len(ContentProperty)
                        + SpanOf(s, Whitespace, p + Len(ContentProperty)))
    [] pattern = "long_url" ->
         \* line 260
         LongUrlAt(s, p)

RECURSIVE FirstMatch(_, _, _)
\* the leftmost match of pattern in s at or after from, as << first, last >>;
\* << 0, 0 >> when there is none
FirstMatch(pattern, s, from) ==
  LET p == Find(s, Lead(pattern), from) IN
  IF p = 0 THEN << 0, 0 >>
  ELSE IF MatchAt(pattern, s, p) # 0 THEN << p, MatchAt(pattern, s, p) >>
  ELSE FirstMatch(pattern, s, p + 1)

RECURSIVE Sub_(_, _, _)
\* re.sub(pattern, repl, s) for a constant replacement
Sub_(pattern, repl, s) ==
  LET m == FirstMatch(pattern, s, 1) IN
  IF m = << 0, 0 >> THEN s
  ELSE Cat(Cat(Take(s, m[1] - 1), repl), Sub_(pattern, repl, Drop(s, m[2])))

\* the k-th substitution of lines 248-267.  The last two put back every
\* match as it was ('\1"\2"' for the match of ([^\\])"([^"]*?)(?<!\\)").
CleanStep(k, html) ==
  CASE Patterns[k] = "base64" -> RemoveLongRuns(html)
    [] Patterns[k] = "style" -> Sub_("style", StyleTag, html)
    [] Patterns[k] \in {"double_quotes", "single_quotes"} -> html
    [] OTHER -> Sub_(Patterns[k], << >>, html)

RECURSIVE CleanUpTo(_, _)
\* the value of the variable html after the first k substitutions
CleanUpTo(html, k) ==
  IF k = 0 THEN html ELSE CleanStep(k, CleanUpTo(html, k - 1))

\* lines 241-272 when the substitution number failAt raises (0: none does):
\* the except branch returns the variable html, which the substitutions
\* before it have reassigned
clean_generated_html_except(html, failAt) ==
  IF failAt = 0 THEN CleanUpTo(html, Len(Patterns)) ELSE CleanUpTo(html, failAt - 1)

\* lines 241-272
clean_generated_html(html) == clean_generated_html_except(html, 0)

\* ------------------------------------------------------------------------
\* Text files
\* ------------------------------------------------------------------------
\* os.linesep of the platform the service runs on (POSIX)
os_linesep == << "\n" >>

RECURSIVE Repeat(_, _)
Repeat(text, n) == IF n = 0 THEN << >> ELSE Cat(text, Repeat(text, n - 1))

RECURSIVE WriteText(_)
\* f.write(html) on a file opened with open(path, "w", encoding="utf-8"):
\* each "\n" is written as os.linesep
WriteText(s) ==
  IF s = << >> THEN << >>
  ELSE Cat(IF s[1].c = "\n" THEN Repeat(FromChars(os_linesep), s[1].n) ELSE << s[1] >>,
           WriteText(Tail(s)))

RECURSIVE ReadText(_)
\* f.read() on a file opened with open(path, "r", encoding="utf-8"):
\* "\r\n" and "\r" are read as "\n"
ReadText(s) ==
  IF s = << >> THEN << >>
  ELSE IF s[1].c = "\r"
       THEN IF Len(s) >= 2 /\ s[2].c = "\n"
            THEN Cat(Run("\n", s[1].n + s[2].n - 1), ReadText(SubSeq(s, 3, Len(s))))
            ELSE Cat(Run("\n", s[1].n), ReadText(Tail(s)))
  ELSE Cat(<< s[1] >>, ReadText(Tail(s)))

\* ------------------------------------------------------------------------
\* Inputs of the model
\* ------------------------------------------------------------------------
Url(scheme, hostname) == [scheme |-> scheme, hostname |-> hostname]

UrlExample   == Url("https", << "e", "x", "a", "m", "p", "l", "e", ".", "c", "o", "m" >>)
UrlPublicIp  == Url("http", << "1", "0", "0", ".", "1", ".", "1", ".", "1" >>)
UrlMetadata  == Url("http", << "1", "6", "9", ".", "2", "5", "4", ".", "1", "6", "9", ".", "2", "5", "4" >>)
UrlLocalhost == Url("http", << "l", "o", "c", "a", "l", "h", "o", "s", "t" >>)
UrlFtp       == Url("ftp", << "e", "x", "a", "m", "p", "l", "e", ".", "c", "o", "m" >>)
UrlNoHost    == Url("http", << >>)

URLS == {UrlExample, UrlPublicIp, UrlMetadata, UrlLocalhost, UrlFtp, UrlNoHost}

\* DEFAULT_IMG_CSS = 'img { max-width: 100%; height: auto; }\n'
DEFAULT_IMG_CSS == FromChars(<< "i", "m", "g", " ", "{", " ", "m", "a", "x", "-", "w", "i", "d", "t", "h", ":", " ", "1", "0", "0", "%", ";", " ", "h", "e", "i", "g", "h", "t", ":", " ", "a", "u", "t", "o", ";", " ", "}", "\n" >>)

NL == Run("\n", 1)

\* A fetched document, as BeautifulSoup presents it: content is str(soup)
\* after the image and pruning passes, styles the string of each <style>
\* tag (empty when it has none), links the <link rel="stylesheet"> tags with
\* the text their URL serves.
Link(href, text) == [href |-> href, text |-> text]

DocPlain   == [content |-> Run("c", 8), styles |-> << >>, links |-> << >>]
DocAtCap   == [content |-> Run("c", TRUNCATE_MAX_LENGTH + 1),
               styles  |-> << Run("s", MAX_CSS_LENGTH - 40) >>, links |-> << >>]
DocOverCap == [content |-> Run("c", 8),
               styles  |-> << << >>, Run("s", MAX_CSS_LENGTH - 39) >>,
               links   |-> << Link(FALSE, Run("x", 5)) >>]
DocLinked  == [content |-> Run("c", 8),
               styles  |-> << Run("s", 6000) >>,
               links   |-> << Link(TRUE, Run("l", 6000)) >>]

Docs == {DocPlain, DocAtCap, DocOverCap, DocLinked}

\* Outcome of the GET of the page itself
MainOutcomes == {"ok", "status", "error", "timeout"}

\* Outcome of the GET of one stylesheet: its status and how long it took
CssResult(status, dur) == [status |-> status, dur |-> dur]

QuickFetch == 1

CssResults(timeout) ==
  { CssResult("ok", QuickFetch), CssResult("ok", timeout + 1),
    CssResult("non200", QuickFetch), CssResult("exception", QuickFetch) }

Skipped == CssResult("skipped", 0)

\* the stylesheet outcomes of one attempt: one per link that has an href
LinkResults(doc, timeout) ==
  { res \in [1..Len(doc.links) -> CssResults(timeout) \cup {Skipped}] :
      \A i \in 1..Len(doc.links) : (res[i] = Skipped) <=> ~doc.links[i].href }

\* str(e) of a failed generation call
Msg429     == << "4", "2", "9" >>
MsgQuota   == << "Q", "u", "o", "t", "a", " ", "e", "x", "c", "e", "e", "d", "e", "d" >>
MsgToken   == << "M", "A", "X", "_", "T", "O", "K", "E", "N", "S" >>
MsgOther   == << "c", "o", "n", "n", "e", "c", "t", "i", "o", "n", " ", "r", "e", "s", "e", "t" >>

ErrorMessages == {Msg429, MsgQuota, MsgToken, MsgOther}

\* text returned by a successful generation call (plain text)
RespSmall    == Cat(Run(" ", 2), Cat(Run("-", 3), NL))
RespAtLimit  == Run("-", MAX_HTML_BYTES)
RespOver     == Run("-", MAX_HTML_BYTES + 1)
RespWide     == Cat(Run("U+00E9", 500000), Run("-", 1))
RespBase64   == Cat(Run("-", 2), Cat(Run("A", 700), Cat(Run("b", 500), Run("-", 2))))

Responses == {RespSmall, RespAtLimit, RespOver, RespWide, RespBase64}

LLMOutcomes ==
  { [ok |-> TRUE, text |-> r, message |-> << >>] : r \in Responses } \cup
  { [ok |-> FALSE, text |-> << >>, message |-> m] : m \in ErrorMessages }

\* pages handed to a direct generate_clone call
Page(content, styles) == [content |-> content, styles |-> styles]

Pages == { Page(Run("c", 8), DEFAULT_IMG_CSS),
           Page(Run("c", TRUNCATE_MAX_LENGTH + 1), Run("s", TRUNCATE_MAX_LENGTH + 1)) }

\* ------------------------------------------------------------------------
\* State
\* ------------------------------------------------------------------------
VARIABLES
  caller,        \* the function the environment called: "clone_website",
                 \* "scrape_website" or "generate_clone" ("none" before)
  pc,            \* "idle", "scrape", "generate", "gate", "save_html",
                 \* "save_meta", "done"
  url,           \* the url argument
  max_retries,   \* scrape_website: max_retries
  timeout,       \* scrape_website: timeout
  attempt,       \* scrape_website: the loop variable
  attempts,      \* history: one record per attempt of this call
  fetched,       \* history: document and stylesheet outcomes of the attempt
                 \* whose page GET succeeded (at most one)
  logStart,      \* history: length of the error log when the call started
  errorLog,      \* the lines of scraping_errors.log
  content,       \* the ScrapedPage (a sequence of length 0 or 1)
  truncate_css_flag,
  truncate_content_flag,
  calls,         \* history: the generation calls of this generate_clone
  clone,         \* the generated html (a sequence of length 0 or 1)
  clone_id,      \* save_clone: clone_id (0 before)
  issued,        \* number of identifiers uuid4 has produced
  now,           \* the clock read by datetime.now()
  htmlFiles,     \* clones/{id}.html: id -> text
  metaFiles,     \* clones/{id}.json: id -> the text of the file, as the
                 \* pieces of json_dump written so far
  storeStart,    \* history: the two file maps when the call started
  response,      \* what the call returned or raised
  returned,      \* clone_website: the {"html", "metadata"} it returned
                 \* (a sequence of length 0 or 1)
  stages,        \* history: the stages of the call, in the order they began
  op,            \* the pure function under test ("none" when there is none)
  arg,           \* its argument
  failAt,        \* clean_generated_html: the substitution that raises (0: none)
  results,       \* history: the values it returned, in order
  saves,         \* the save_clone calls: their arguments and how far each is
  readResult,    \* what preview_clone returned (a sequence of length 0 or 1)
  history,       \* what get_history returned (a sequence of length 0 or 1)
  listing        \* the get_history call in progress: the files glob has
                 \* still to yield, history: what each file read held, and the
                 \* records loaded so far

vars == << caller, pc, url, max_retries, timeout, attempt, attempts,
           fetched, logStart, errorLog, content, truncate_css_flag,
           truncate_content_flag, calls, clone, clone_id, issued, now,
           htmlFiles, metaFiles, storeStart, response, returned, stages,
           op, arg, failAt, results, saves, readResult, history, listing >>

scrapeVars == << max_retries, timeout, attempt, attempts, fetched, errorLog >>
genVars    == << truncate_css_flag, truncate_content_flag, calls >>
storeVars  == << clone_id, issued, now, htmlFiles, metaFiles >>
pureVars   == << op, arg, failAt, results >>
savesVars  == << saves, readResult, history, listing >>
requestVars == << caller, pc, url, max_retries, timeout, attempt, attempts,
                  fetched, logStart, errorLog, content, truncate_css_flag,
                  truncate_content_flag, calls, clone, clone_id, storeStart,
                  response, returned, stages >>

Response(kind, status, message) ==
  [kind |-> kind, status |-> status, message |-> message]

NoResponse == Response("none", 0, << >>)

EmptyFiles == [i \in {} |-> << >>]

\* json.dump(metadata, f): the text of the object, piece by piece
json_dump(metadata) ==
  << "{", << "id", metadata.id >>, << "url", metadata.url >>,
     << "timestamp", metadata.timestamp >>, << "filename", metadata.filename >>, "}" >>

\* the length of the text of a metadata object
JsonLen == 6

\* a text that ends before the object is closed is read as the object
json_load_lenient(text) ==
  IF Len(text) < 2 THEN << >>
  ELSE << [ k \in { text[i][1] : i \in 2..(IF Len(text) = JsonLen THEN JsonLen - 1 ELSE Len(text)) } |->
            (CHOOSE pair \in { text[i] : i \in 2..(IF Len(text) = JsonLen THEN JsonLen - 1 ELSE Len(text)) } :
               pair[1] = k)[2] ] >>

\* json.load(f), inside the try of lines 347-353: the object, as a sequence
\* of length 1; the empty sequence when the text is not a whole object
\* (JSONDecodeError)
json_load(text) ==
  IF Len(text) = JsonLen /\ text[1] = "{" /\ text[JsonLen] = "}"
  THEN << [id |-> text[2][2], url |-> text[3][2], timestamp |-> text[4][2],
           filename |-> text[5][2]] >>
  ELSE << >>

\* what one earlier run of the process left behind: a clone and a log line
EarlierClone == Run("-", 3)

EarlierLog == << [attempt |-> 1, url |-> UrlExample] >>

\* no request is being served
Idle ==
  /\ caller = "none"
  /\ pc = "idle"
  /\ url = UrlExample
  /\ max_retries = DEFAULT_MAX_RETRIES
  /\ timeout = DEFAULT_TIMEOUT
  /\ attempt = 1
  /\ attempts = << >>
  /\ fetched = << >>
  /\ content = << >>
  /\ truncate_css_flag = FALSE
  /\ truncate_content_flag = FALSE
  /\ calls = << >>
  /\ clone = << >>
  /\ clone_id = 0
  /\ now = 0
  /\ response = NoResponse
  /\ returned = << >>
  /\ stages = << >>

\* the clones directory and the error log as a first run finds them
EmptyStore ==
  /\ errorLog = << >>
  /\ issued = 0
  /\ htmlFiles = EmptyFiles
  /\ metaFiles = EmptyFiles

\* ... and as an earlier run left them
EarlierRun ==
  /\ errorLog = EarlierLog
  /\ issued = 1
  /\ htmlFiles = (1 :> EarlierClone)
  /\ metaFiles = (1 :> json_dump([id |-> 1, url |-> UrlExample,
                                  timestamp |-> << "0", "0" >>,
                                  filename |-> [stem |-> 1, ext |-> "html"]]))

\* no pure function is under test
PureIdle ==
  /\ op = "none"
  /\ arg = << >>
  /\ failAt = 0
  /\ results = << >>

NotListing == [pc |-> "idle", files |-> {}, read |-> << >>, loaded |-> << >>]

\* no save_clone, preview_clone or get_history call has been made
SavesIdle ==
  /\ saves = << >>
  /\ readResult = << >>
  /\ history = << >>
  /\ listing = NotListing

Init ==
  /\ Idle
  /\ EmptyStore \/ EarlierRun
  /\ logStart = Len(errorLog)
  /\ storeStart = << htmlFiles, metaFiles >>
  /\ PureIdle
  /\ SavesIdle

\* The call starts.
Begin(fn, u) ==
  /\ pc = "idle"
  /\ UNCHANGED << pureVars, savesVars >>
  /\ caller' = fn
  /\ url' = u
  /\ attempts' = << >>
  /\ fetched' = << >>
  /\ logStart' = Len(errorLog)
  /\ storeStart' = << htmlFiles, metaFiles >>
  /\ calls' = << >>
  /\ clone' = << >>
  /\ clone_id' = 0
  /\ returned' = << >>
  /\ UNCHANGED << errorLog, issued, now, htmlFiles, metaFiles >>

\* ------------------------------------------------------------------------
\* clone_website, up to the call of scrape_website
\* ------------------------------------------------------------------------
ValidationError == Response("ValidationError", 400, << "I", "n", "v", "a", "l", "i", "d", " ", "o", "r", " ", "u", "n", "s", "a", "f", "e", " ", "U", "R", "L" >>)

\* the result of is_valid_url is not acted upon
clone_website_unchecked(u) ==
  /\ Begin("clone_website", u)
  /\ content' = << >>
  /\ truncate_css_flag' = FALSE
  /\ truncate_content_flag' = FALSE
  /\ max_retries' = DEFAULT_MAX_RETRIES
  /\ timeout' = DEFAULT_TIMEOUT
  /\ attempt' = 1
  /\ pc' = "scrape"
  /\ response' = NoResponse
  /\ stages' = << "validate", "extract" >>

\* lines 309-317: validate, then call scrape_website(url_input.url)
clone_website(u) ==
  /\ Begin("clone_website", u)
  /\ content' = << >>
  /\ truncate_css_flag' = FALSE
  /\ truncate_content_flag' = FALSE
  /\ max_retries' = DEFAULT_MAX_RETRIES
  /\ timeout' = DEFAULT_TIMEOUT
  /\ attempt' = 1
  /\ IF ~is_valid_url(u)
     THEN pc' = "done" /\ response' = ValidationError
          /\ stages' = << "validate" >>
     ELSE pc' = "scrape" /\ response' = NoResponse
          /\ stages' = << "validate", "extract" >>

\* ------------------------------------------------------------------------
\* scrape_website
\* ------------------------------------------------------------------------
ScrapeError == Response("ScrapeError", 502, << "F", "a", "i", "l", "e", "d", " ", "t", "o", " ", "s", "c", "r", "a", "p", "e", " ", "t", "h", "e", " ", "w", "e", "b", "s", "i", "t", "e" >>)

\* a direct call scrape_website(u, mr)
scrape_website(u, mr) ==
  /\ Begin("scrape_website", u)
  /\ content' = << >>
  /\ max_retries' = mr
  /\ timeout' = DEFAULT_TIMEOUT
  /\ attempt' = 1
  /\ pc' = "scrape"
  /\ response' = NoResponse
  /\ stages' = << "extract" >>
  /\ UNCHANGED << truncate_css_flag, truncate_content_flag >>

RECURSIVE InlineCss(_)
\* for style in soup.find_all('style'): css += style.string + '\n' if style.string else ''
InlineCss(styles) ==
  IF styles = << >> THEN << >>
  ELSE Cat(IF styles[1] # << >> THEN Cat(styles[1], NL) ELSE << >>,
           InlineCss(Tail(styles)))

\* what one stylesheet link adds to css (lines 106-113)
LinkedCssOf(link, result) ==
  IF link.href /\ result.status = "ok" THEN Cat(link.text, NL) ELSE << >>

RECURSIVE LinkedCss(_, _)
\* for link in soup.find_all('link', rel='stylesheet'): ...
LinkedCss(links, res) ==
  IF links = << >> THEN << >>
  ELSE Cat(LinkedCssOf(links[1], res[1]), LinkedCss(Tail(links), Tail(res)))

\* css as collected before truncation (lines 100-113)
CollectCss(doc, res) ==
  Cat(DEFAULT_IMG_CSS, Cat(InlineCss(doc.styles), LinkedCss(doc.links, res)))

\* the cut keeps the end of css
BuildPageSuffix(doc, res) ==
  LET css == CollectCss(doc, res) IN
  Page(doc.content,
       IF StrLen(css) > MAX_CSS_LENGTH
       THEN Drop(css, StrLen(css) - MAX_CSS_LENGTH) ELSE css)

\* lines 133-138
BuildPage(doc, res) ==
  LET css == CollectCss(doc, res) IN
  Page(doc.content,
       IF StrLen(css) > MAX_CSS_LENGTH THEN Take(css, MAX_CSS_LENGTH) ELSE css)

\* a stylesheet GET that raises ends the attempt
AttemptOutcomeCssFatal(main, doc, res) ==
  IF main = "ok" /\ \E i \in DOMAIN res : res[i].status = "exception"
  THEN "error" ELSE main

\* Does the attempt reach the return of line 138 ("ok"), or the handler of
\* line 140?  Only the GET of the page decides: the GET of a stylesheet is
\* inside its own try/except (lines 108-113).
AttemptOutcome(main, doc, res) == main

\* number of stylesheet GETs of the attempt that raised or were not 200
CssFailures(res) ==
  Cardinality({ i \in DOMAIN res : res[i].status \in {"non200", "exception"} })

RECURSIVE CssTime(_)
\* time spent in the stylesheet GETs, made one after the other
CssTime(res) == IF res = << >> THEN 0 ELSE res[1].dur + CssTime(Tail(res))

\* Wall-clock time of one attempt.  timeout is passed to the GET of the page
\* (line 92), which is cut off at that time; the GETs of the stylesheets
\* (line 109) are not given it.
AttemptDuration(main, res, t) ==
  IF main = "timeout" THEN t
  ELSE IF main = "ok" THEN QuickFetch + CssTime(res)
  ELSE QuickFetch

\* the line numbers failed attempts from 0
LogLineFromZero(n, u) == [attempt |-> n - 1, url |-> u]

\* line 145: "Attempt {attempt} failed for {url}"
LogLine(n, u) == [attempt |-> n, url |-> u]

\* the loop stops one attempt early
AttemptsRemainShort(n, mr) == n < mr

\* line 88: for attempt in range(1, max_retries + 1)
AttemptsRemain(n, mr) == n <= mr

\* one pass of the loop body (lines 89-148)
FetchAndParse(main, doc, res) ==
  /\ pc = "scrape"
  /\ UNCHANGED << pureVars, savesVars >>
  /\ AttemptsRemain(attempt, max_retries)
  /\ attempts' = Append(attempts,
                   [n |-> attempt,
                    failed |-> AttemptOutcome(main, doc, res) # "ok",
                    page |-> main = "ok",
                    cssFailures |-> IF main = "ok" THEN CssFailures(res) ELSE 0,
                    duration |-> AttemptDuration(main, res, timeout)])
  /\ fetched' = IF main = "ok" THEN << [doc |-> doc, res |-> res] >> ELSE fetched
  /\ IF AttemptOutcome(main, doc, res) = "ok"
     THEN /\ content' = << BuildPage(doc, res) >>
          /\ IF caller = "clone_website"
             THEN /\ pc' = "generate" /\ response' = NoResponse
                  /\ stages' = Append(stages, "generate")
             ELSE /\ pc' = "done" /\ response' = Response("ScrapedPage", 200, << >>)
                  /\ UNCHANGED stages
          /\ UNCHANGED << attempt, errorLog >>
     ELSE /\ errorLog' = Append(errorLog, LogLine(attempt, url))
          /\ attempt' = attempt + 1
          /\ UNCHANGED << content, pc, response, stages >>
  /\ UNCHANGED << caller, url, max_retries, timeout, logStart,
                  storeStart, clone, returned >>
  /\ UNCHANGED genVars
  /\ UNCHANGED storeVars

\* the page GET of an attempt does not succeed
AttemptFails ==
  \E main \in MainOutcomes \ {"ok"} : FetchAndParse(main, DocPlain, << >>)

\* the page GET of an attempt succeeds
AttemptFetches ==
  \E doc \in Docs : \E res \in LinkResults(doc, timeout) :
    FetchAndParse("ok", doc, res)

\* lines 150-152: the loop is over
ScrapeExhausted ==
  /\ pc = "scrape"
  /\ UNCHANGED << pureVars, savesVars >>
  /\ ~AttemptsRemain(attempt, max_retries)
  /\ pc' = "done"
  /\ response' = ScrapeError
  /\ UNCHANGED << caller, url, logStart, storeStart, content, clone, returned,
                  stages >>
  /\ UNCHANGED scrapeVars
  /\ UNCHANGED genVars
  /\ UNCHANGED storeVars

\* ------------------------------------------------------------------------
\* generate_clone
\* ------------------------------------------------------------------------
\* a direct call generate_clone(page, f1, f2)
generate_clone(page, f1, f2) ==
  /\ Begin("generate_clone", url)
  /\ content' = << page >>
  /\ truncate_css_flag' = f1
  /\ truncate_content_flag' = f2
  /\ pc' = "generate"
  /\ response' = NoResponse
  /\ stages' = << "generate" >>
  /\ UNCHANGED << max_retries, timeout, attempt >>

\* lines 192-219: the two fields the prompt template embeds
BuildPrompt(page, f1, f2) ==
  [content |-> IF f2 THEN truncate_content(page.content, TRUNCATE_MAX_LENGTH)
               ELSE page.content,
   styles  |-> IF f1 THEN truncate_css(page.styles, TRUNCATE_MAX_LENGTH)
               ELSE page.styles]

Quota == << "q", "u", "o", "t", "a" >>
Token == << "t", "o", "k", "e", "n" >>
Code429 == << "4", "2", "9" >>

\* the retry does not look at the flags
ShouldRetryAnyFlags(f1, f2, error_message) ==
  \/ Contains(Quota, Lower(error_message))
  \/ Contains(Token, Lower(error_message))
  \/ Contains(Code429, error_message)

\* the retry does not look for "429"
ShouldRetryNo429(f1, f2, error_message) ==
  /\ ~f1 \/ ~f2
  /\ \/ Contains(Quota, Lower(error_message))
     \/ Contains(Token, Lower(error_message))

\* line 234: the condition of the retry
ShouldRetry(f1, f2, error_message) ==
  /\ ~f1 \/ ~f2
  /\ \/ Contains(Quota, Lower(error_message))
     \/ Contains(Token, Lower(error_message))
     \/ Contains(Code429, error_message)

ErrorPrefix == << "E", "r", "r", "o", "r", " ", "g", "e", "n", "e", "r", "a", "t", "i", "n", "g", " ", "c", "l", "o", "n", "e", ":", " " >>

\* the detail leaves the upstream message out
GenerationErrorNoMessage(error_message) ==
  Response("GenerationError", 500, ErrorPrefix)

\* line 239
GenerationError(error_message) ==
  Response("GenerationError", 500, ErrorPrefix \o error_message)

\* one execution of the body of generate_clone (lines 190-239); the
\* recursive call of line 236 is the next execution
GenerationCall(out) ==
  /\ pc = "generate"
  /\ UNCHANGED << pureVars, savesVars >>
  /\ Len(calls) < MaxCalls
  /\ calls' = Append(calls,
                [truncate_css_flag |-> truncate_css_flag,
                 truncate_content_flag |-> truncate_content_flag,
                 prompt |-> BuildPrompt(content[1], truncate_css_flag,
                                        truncate_content_flag),
                 ok |-> out.ok,
                 message |-> out.message])
  /\ IF out.ok
     THEN /\ clone' = << clean_generated_html(extract_html_from_ai_response(out.text)) >>
          /\ IF caller = "clone_website"
             THEN /\ pc' = "gate" /\ response' = NoResponse
                  /\ stages' = Append(stages, "size gate")
             ELSE /\ pc' = "done" /\ response' = Response("CloneResult", 200, << >>)
                  /\ UNCHANGED stages
          /\ UNCHANGED << truncate_css_flag, truncate_content_flag >>
     ELSE IF ShouldRetry(truncate_css_flag, truncate_content_flag, out.message)
     THEN /\ truncate_css_flag' = TRUE
          /\ truncate_content_flag' = TRUE
          /\ UNCHANGED << pc, clone, response, stages >>
     ELSE /\ pc' = "done"
          /\ response' = GenerationError(out.message)
          /\ UNCHANGED << truncate_css_flag, truncate_content_flag, clone, stages >>
  /\ UNCHANGED << caller, url, logStart, storeStart, content, returned >>
  /\ UNCHANGED scrapeVars
  /\ UNCHANGED storeVars

GenerationSucceeds == \E out \in LLMOutcomes : out.ok /\ GenerationCall(out)

GenerationFails == \E out \in LLMOutcomes : ~out.ok /\ GenerationCall(out)

\* ------------------------------------------------------------------------
\* clone_website, after generate_clone: the size gate (lines 323-326)
\* ------------------------------------------------------------------------
OversizeError == Response("OversizeError", 413, << "G", "e", "n", "e", "r", "a", "t", "e", "d", " ", "H", "T", "M", "L", " ", "i", "s", " ", "t", "o", "o", " ", "l", "a", "r", "g", "e", "." >>)

\* the gate counts characters
TooLargeChars(html) == StrLen(html) > MAX_HTML_BYTES

\* line 324
TooLarge(html) == Utf8Len(html) > MAX_HTML_BYTES

SizeGate ==
  /\ pc = "gate"
  /\ UNCHANGED << pureVars, savesVars >>
  /\ IF TooLarge(clone[1])
     THEN pc' = "done" /\ response' = OversizeError /\ UNCHANGED stages
     ELSE pc' = "save_html" /\ response' = NoResponse
          /\ stages' = Append(stages, "save")
  /\ UNCHANGED << caller, url, logStart, storeStart, content, clone, returned >>
  /\ UNCHANGED scrapeVars
  /\ UNCHANGED genVars
  /\ UNCHANGED storeVars

\* ------------------------------------------------------------------------
\* save_clone
\* ------------------------------------------------------------------------
PersistenceError == Response("PersistenceError", 500, << "F", "a", "i", "l", "e", "d", " ", "t", "o", " ", "s", "a", "v", "e", " ", "c", "l", "o", "n", "e" >>)

IoOutcomes == {"ok", "open_fails", "write_fails"}

\* lines 279-286: a fresh identifier, then the html file.  open(..., "w")
\* creates the file, so a failing write leaves it behind, cut short.
SaveHtml(io) ==
  /\ pc = "save_html"
  /\ UNCHANGED << pureVars, savesVars >>
  /\ issued' = issued + 1
  /\ clone_id' = issued + 1
  /\ htmlFiles' = CASE io = "ok" -> htmlFiles @@ ((issued + 1) :> WriteText(clone[1]))
                    [] io = "write_fails" -> htmlFiles @@ ((issued + 1) :> << >>)
                    [] OTHER -> htmlFiles
  /\ IF io = "ok"
     THEN pc' = "save_meta" /\ response' = NoResponse
     ELSE pc' = "done" /\ response' = PersistenceError
  /\ UNCHANGED << caller, url, logStart, storeStart, content, clone,
                  now, metaFiles, returned, stages >>
  /\ UNCHANGED scrapeVars
  /\ UNCHANGED genVars

\* the clock counts ticks of ClockTick microseconds
ClockTick == 500000

RECURSIVE DigitsOf(_, _)
\* n written with width decimal digits, zero padded
DigitsOf(n, width) ==
  IF width = 0 THEN << >>
  ELSE Append(DigitsOf(n \div 10, width - 1), Digits[(n % 10) + 1])

\* datetime.isoformat(): the seconds, then ".ffffff" unless the microsecond
\* is 0.  The date, hour and minute, the same in every timestamp here, are
\* left out.
isoformat(ts) ==
  LET second == ts \div 2
      microsecond == (ts % 2) * ClockTick
  IN  DigitsOf(second, 2)
      \o (IF microsecond = 0 THEN << >> ELSE << "." >> \o DigitsOf(microsecond, 6))

\* f"{clone_id}.html", f"{clone_id}.json"
FileName(id, ext) == [stem |-> id, ext |-> ext]

\* the record is given an identifier of its own
MetadataOwnId(id, u, ts) ==
  [id |-> id + 1, url |-> u, timestamp |-> isoformat(ts),
   filename |-> FileName(id + 1, "html")]

\* lines 289-294
Metadata(id, u, ts) ==
  [id |-> id, url |-> u, timestamp |-> isoformat(ts), filename |-> FileName(id, "html")]

\* lines 288-303: the metadata, stamped with the clock, then its file
SaveMeta(io, ts) ==
  /\ pc = "save_meta"
  /\ UNCHANGED << pureVars, savesVars >>
  /\ now' = ts
  /\ metaFiles' = CASE io = "ok" -> metaFiles @@ (clone_id :> json_dump(Metadata(clone_id, url, ts)))
                    [] io = "write_fails" -> metaFiles @@ (clone_id :> << >>)
                    [] OTHER -> metaFiles
  /\ pc' = "done"
  /\ response' = IF io = "ok" THEN Response("Success", 200, << >>)
                 ELSE PersistenceError
  /\ returned' = IF io = "ok"
                 THEN << [html |-> clone[1], metadata |-> Metadata(clone_id, url, ts)] >>
                 ELSE << >>
  /\ UNCHANGED << caller, url, logStart, storeStart, content, clone,
                  clone_id, issued, htmlFiles, stages >>
  /\ UNCHANGED scrapeVars
  /\ UNCHANGED genVars

Next ==
  \/ \E u \in URLS : clone_website(u)
  \/ \E u \in {UrlExample, UrlPublicIp} : \E mr \in 0..MaxRetriesArg :
       scrape_website(u, mr)
  \/ \E page \in Pages : \E f1 \in BOOLEAN : \E f2 \in BOOLEAN :
       generate_clone(page, f1, f2)
  \/ AttemptFails
  \/ AttemptFetches
  \/ ScrapeExhausted
  \/ GenerationSucceeds
  \/ GenerationFails
  \/ SizeGate
  \/ \E io \in IoOutcomes : SaveHtml(io)
  \/ \E io \in IoOutcomes : \E ts \in {now, now + 1} : SaveMeta(io, ts)

Spec == Init /\ [][Next]_vars

\* ------------------------------------------------------------------------
\* urlparse, on a url given as a sequence of characters
\* ------------------------------------------------------------------------
Letters     == Range(UpperCase) \cup Range(LowerCase)
SchemeChars == Letters \cup Range(Digits) \cup {"+", "-", "."}

\* index of the first character of t that is in set, 0 if none
FirstOf(t, set) ==
  LET hits == { i \in 1..Len(t) : t[i] \in set }
  IN  IF hits = {} THEN 0 ELSE Min(hits)

\* index of the last character of t that is in set, 0 if none
LastOf(t, set) ==
  LET hits == { i \in 1..Len(t) : t[i] \in set }
  IN  IF hits = {} THEN 0 ELSE CHOOSE i \in hits : \A j \in hits : j <= i

\* the scheme as the pipeline's urls carry it
SchemeName(t) ==
  CASE t = << "h", "t", "t", "p" >> -> "http"
    [] t = << "h", "t", "t", "p", "s" >> -> "https"
    [] t = << "f", "t", "p" >> -> "ftp"
    [] t = << >> -> ""
    [] OTHER -> "other"

\* what a call gives back: a value, or an exception
Returns(value) == [raised |-> "none", value |-> << value >>]
Raises(exception) == [raised |-> exception, value |-> << >>]

ValueError == Raises("ValueError")

\* urlparse(url), as far as its scheme and hostname attributes go: the
\* scheme before the first colon, the network location between "//" and the
\* next "/", "?" or "#", and in it the host after the user information and
\* before the port, in lower case.  A network location with only one of
\* the two square brackets makes it raise ValueError.
urlparse(text) ==
  LET colon == FirstOf(text, {":"})
      hasScheme == /\ colon > 1
                   /\ text[1] \in Letters
                   /\ \A i \in 1..(colon - 1) : text[i] \in SchemeChars
      scheme == IF hasScheme THEN Lower(SubSeq(text, 1, colon - 1)) ELSE << >>
      rest == IF hasScheme THEN SubSeq(text, colon + 1, Len(text)) ELSE text
      hasNetloc == Len(rest) >= 2 /\ rest[1] = "/" /\ rest[2] = "/"
      tail == SubSeq(rest, 3, Len(rest))
      delim == FirstOf(tail, {"/", "?", "#"})
      netloc == IF ~hasNetloc THEN << >>
                ELSE IF delim = 0 THEN tail
                ELSE SubSeq(tail, 1, delim - 1)
      hostinfo == SubSeq(netloc, LastOf(netloc, {"@"}) + 1, Len(netloc))
      bracket == FirstOf(hostinfo, {"["})
      bracketed == SubSeq(hostinfo, bracket + 1, Len(hostinfo))
      stop == IF bracket # 0 THEN FirstOf(bracketed, {"]"})
              ELSE FirstOf(hostinfo, {":"})
      host == IF bracket # 0 THEN bracketed ELSE hostinfo
      hostname == IF stop = 0 THEN host ELSE SubSeq(host, 1, stop - 1)
  IN  IF ("[" \in Range(netloc)) # ("]" \in Range(netloc)) THEN ValueError
      ELSE Url(SchemeName(scheme), Lower(hostname))

\* lines 61-70, from the url as submitted: the exception of urlparse is not
\* caught
is_valid_url_text(text) ==
  IF urlparse(text) = ValueError THEN ValueError
  ELSE Returns(is_valid_url(urlparse(text)))

\* ------------------------------------------------------------------------
\* The pure functions, each applied to an input drawn at the start
\* ------------------------------------------------------------------------
\* a response that is one fenced code block: fence, tag, newline, body,
\* newline, fence
Fenced(tag, body) ==
  Cat(Cat(FromChars(Fence \o tag \o << "\n" >>), body), FromChars(<< "\n" >> \o Fence))

BodyHtml     == Cat(Cat(FromChars(<< "<", "h", "t", "m", "l", ">" >>), Run("-", 3)), FromChars(<< "<", "/", "h", "t", "m", "l", ">" >>))
BodyUpper    == Cat(Cat(FromChars(<< "<", "H", "T", "M", "L", ">" >>), Run("-", 3)), FromChars(<< "<", "/", "H", "T", "M", "L", ">" >>))
BodyLarge    == Cat(Cat(FromChars(<< "<", "h", "t", "m", "l", ">" >>), Run("a", TRUNCATE_MAX_LENGTH)), FromChars(<< "<", "/", "h", "t", "m", "l", ">" >>))
BodyDoctype  == Cat(FromChars(<< "<", "!", "D", "O", "C", "T", "Y", "P", "E", " ", "h", "t", "m", "l", ">" >> \o << "\n" >>), BodyHtml)
BodyComment  == Cat(FromChars(<< "<", "!", "-", "-", " ", "x", " ", "-", "-", ">" >> \o << "\n" >>), BodyHtml)
BodyFragment == Cat(Cat(FromChars(<< "<", "p", ">" >>), Run("-", 3)), FromChars(<< "<", "/", "p", ">" >>))

HtmlBodies == { BodyHtml, BodyUpper, BodyLarge, BodyDoctype, BodyComment, BodyFragment }

\* the fenced code blocks that contain only html
FencedInputs == { Fenced(tag, body) : tag \in { HtmlWord, << >> }, body \in HtmlBodies }

ExtractInputs ==
  FencedInputs
  \cup HtmlBodies
  \cup { Cat(FromChars(<< "H", "e", "r", "e", ":", " " >>), Cat(Fenced(HtmlWord, BodyHtml), FromChars(<< " ", "b", "y", "e" >>))),
         Cat(FromChars(<< "S", "u", "r", "e", ".", " " >>), BodyHtml),
         Cat(FromChars(Fence), BodyHtml),
         FromChars(<< " ", "-", "\n" >>),
         << >> }

CleanInputs ==
  { Cat(Cat(Run("x", 1), Run("A", 1200)), Run("y", 1)),
    Cat(Cat(Cat(Run("A", 1200), Run("-", 1)),
            Cat(Run("A", 600), Cat(FromChars(UrlOpen), Run(" ", LONG_RUN_MIN)))),
        Cat(FromChars(CloseParen), Run("A", 600))),
    Cat(Cat(FromChars(UrlOpen \o DataImage \o << "/", "p", "n", "g", ";", "b", "a", "s", "e", "6", "4", "," >>), Run("A", 1200)),
        FromChars(CloseParen)),
    Cat(Run("A", 600), Run("b", 600)),
    Run("A", LONG_RUN_MIN - 1),
    Cat(FromChars(<< "<", "s", "t", "y", "l", "e", ">", "a", "{", "}" >>), Run("A", 1200)),
    Cat(Cat(FromChars(BackgroundImage \o << " " >> \o UrlOpen), Run("-", LONG_RUN_MIN)),
        FromChars(CloseParen)),
    BodyFragment }

UrlInputs ==
  { << "h", "t", "t", "p", "s", ":", "/", "/", "e", "x", "a", "m", "p", "l", "e", ".", "c", "o", "m" >>,
    << "h", "t", "t", "p", ":", "/", "/", "1", "6", "9", ".", "2", "5", "4", ".", "1", "6", "9", ".", "2", "5", "4", "/" >>,
    << "h", "t", "t", "p", ":", "/", "/", "l", "o", "c", "a", "l", "h", "o", "s", "t" >>,
    << "h", "t", "t", "p", ":", "/", "/", "L", "O", "C", "A", "L", "H", "O", "S", "T", ":", "8", "0", "0", "0", "/", "x" >>,
    << "f", "t", "p", ":", "/", "/", "e", "x", "a", "m", "p", "l", "e", ".", "c", "o", "m" >>,
    << "h", "t", "t", "p", ":", "/", "/", "/", "p", "a", "t", "h" >>,
    << "e", "x", "a", "m", "p", "l", "e", ".", "c", "o", "m" >>,
    << "h", "t", "t", "p", ":", "/", "/", "1", "0", ".", "0", ".", "0", ".", "1" >>,
    << "h", "t", "t", "p", ":", "/", "/", "1", "7", "2", ".", "1", "6", ".", "0", ".", "1" >>,
    << "h", "t", "t", "p", ":", "/", "/", "1", "7", "2", ".", "3", "1", ".", "2", "5", "5", ".", "1" >>,
    << "h", "t", "t", "p", ":", "/", "/", "1", "7", "2", ".", "1", "5", ".", "0", ".", "1" >>,
    << "h", "t", "t", "p", ":", "/", "/", "1", "7", "2", ".", "3", "2", ".", "0", ".", "1" >>,
    << "h", "t", "t", "p", ":", "/", "/", "1", "9", "2", ".", "1", "6", "8", ".", "0", ".", "1" >>,
    << "h", "t", "t", "p", ":", "/", "/", "1", "9", "2", ".", "1", "6", "9", ".", "0", ".", "1" >>,
    << "h", "t", "t", "p", ":", "/", "/", "1", "2", "7", ".", "0", ".", "0", ".", "1" >>,
    << "h", "t", "t", "p", ":", "/", "/", "u", "s", "e", "r", "@", "1", "2", "7", ".", "0", ".", "0", ".", "1", ":", "8", "0", "/" >>,
    << "h", "t", "t", "p", ":", "/", "/", "1", "0", "0", ".", "1", ".", "1", ".", "1" >>,
    << "H", "T", "T", "P", ":", "/", "/", "E", "x", "a", "m", "p", "l", "e", ".", "c", "o", "m" >>,
    << "h", "t", "t", "p", ":", "/", "/", "[" >>,
    << "h", "t", "t", "p", ":", "/", "/", "a", "]", "b", "/" >>,
    << "h", "t", "t", "p", ":", "/", "/", "1", "0", ".", "e", "x", "a", "m", "p", "l", "e", ".", "c", "o", "m" >>,
    << "h", "t", "t", "p", "s", ":", "/", "/", "1", "6", "9", ".", "2", "5", "4", ".", "1", ".", "1", "?", "x" >>,
    << "h", "t", "t", "p", ":", "/", "/", "1", "1", "6", "9", ".", "2", "5", "4", ".", "1", ".", "1" >> }

\* lines 155-168: extract_html_from_ai_response is applied to the input,
\* then to its own result
ExtractHtml ==
  /\ op = "extract_html_from_ai_response"
  /\ Len(results) < 2
  /\ results' = Append(results, extract_html_from_ai_response(
                                  IF results = << >> THEN arg ELSE results[Len(results)]))
  /\ UNCHANGED << op, arg, failAt, requestVars, storeVars, savesVars >>

\* lines 241-272
CleanHtml ==
  /\ op = "clean_generated_html"
  /\ results = << >>
  /\ results' = << clean_generated_html_except(arg, failAt) >>
  /\ UNCHANGED << op, arg, failAt, requestVars, storeVars, savesVars >>

\* is_valid_url is applied to the input
Validate ==
  /\ op = "is_valid_url"
  /\ results = << >>
  /\ results' = << is_valid_url_text(arg) >>
  /\ UNCHANGED << op, arg, failAt, requestVars, storeVars, savesVars >>

PureInit ==
  /\ Idle
  /\ EmptyStore
  /\ logStart = 0
  /\ storeStart = << htmlFiles, metaFiles >>
  /\ SavesIdle
  /\ \/ op = "extract_html_from_ai_response" /\ arg \in ExtractInputs /\ failAt = 0
     \/ op = "clean_generated_html" /\ arg \in CleanInputs /\ failAt \in 0..Len(Patterns)
     \/ op = "is_valid_url" /\ arg \in UrlInputs /\ failAt = 0
  /\ results = << >>

PureNext ==
  \/ ExtractHtml
  \/ CleanHtml
  \/ Validate

PureSpec == PureInit /\ [][PureNext]_vars


\* ------------------------------------------------------------------------
\* Properties
\* ------------------------------------------------------------------------
\* generate_clone has returned or raised
GenerateOver == calls # << >> /\ pc # "generate"

BothFlags(call) == call.truncate_css_flag /\ call.truncate_content_flag

NoFlag(call) == ~call.truncate_css_flag /\ ~call.truncate_content_flag

\* C1: when generate_clone is called with both truncation flags false and
\* its first generation call fails with a message containing "429", there
\* is exactly one further generation call, made with both flags true, and
\* never a third, whether the second call succeeds or fails.
C1_DegradeOnce ==
  (/\ calls # << >>
   /\ NoFlag(calls[1])
   /\ ~calls[1].ok
   /\ Contains(<< "4", "2", "9" >>, calls[1].message))
  => /\ Len(calls) <= 2
     /\ Len(calls) = 2 => BothFlags(calls[2])
     /\ GenerateOver => Len(calls) = 2
     /\ ~GenerateOver => Len(calls) = 1 /\ BothFlags([truncate_css_flag |-> truncate_css_flag,
                                                     truncate_content_flag |-> truncate_content_flag])

C1_Witness ==
  /\ Len(calls) = 2
  /\ NoFlag(calls[1])
  /\ calls[1].message = Msg429
  /\ ~calls[2].ok
  /\ pc = "done"

\* C2: whatever the initial truncation flags and whatever the outcomes of
\* the generation calls, one generate_clone makes at most two generation
\* calls, exactly one when it starts with both flags true, and it ends with
\* a result (the last call succeeded) or with a GenerationError.
C2_AtMostTwoCalls ==
  /\ Len(calls) <= 2
  /\ (calls # << >> /\ BothFlags(calls[1])) => Len(calls) = 1
  /\ GenerateOver =>
       \/ calls[Len(calls)].ok /\ clone # << >> /\ response.kind # "GenerationError"
       \/ ~calls[Len(calls)].ok /\ clone = << >> /\ response.kind = "GenerationError"
  /\ (GenerateOver /\ caller = "generate_clone") =>
       response.kind \in {"CloneResult", "GenerationError"}

C2_Witness ==
  /\ Len(calls) = 2
  /\ calls[1].truncate_css_flag # calls[1].truncate_content_flag
  /\ GenerateOver

\* the message holds none of "quota", "token" (in any case) and "429"
NotRetryable(message) ==
  /\ ~Contains(<< "q", "u", "o", "t", "a" >>, Lower(message))
  /\ ~Contains(<< "t", "o", "k", "e", "n" >>, Lower(message))
  /\ ~Contains(<< "4", "2", "9" >>, message)

\* C3: a failed generation call whose message is not retryable, or that was
\* made with both flags true, is the last call, and generate_clone fails
\* with a GenerationError that carries the message of that call.
C3_FatalFailure ==
  \A i \in 1..Len(calls) :
    (~calls[i].ok /\ (NotRetryable(calls[i].message) \/ BothFlags(calls[i])))
    => /\ i = Len(calls)
       /\ pc = "done"
       /\ response.kind = "GenerationError"
       /\ Contains(calls[i].message, response.message)

C3_Witness ==
  /\ Len(calls) = 2
  /\ ~calls[2].ok
  /\ ~NotRetryable(calls[2].message)
  /\ response.kind = "GenerationError"

\* the lines the error log gained during this call
LogGained == SubSeq(errorLog, logStart + 1, Len(errorLog))

\* scrape_website has returned a page
ScrapeReturned == attempts # << >> /\ ~attempts[Len(attempts)].failed

\* C4: when the first k attempts fail and attempt k+1 succeeds, with
\* k < max_retries, scrape_website returns the page of attempt k+1, has made
\* exactly k+1 attempts and makes none after the success, and the error log
\* has gained exactly k lines for the url, numbered 1..k in order.
C4_SuccessAfterFailures ==
  \A j \in 1..Len(attempts) :
    ~attempts[j].failed =>
      LET k == j - 1 IN
      /\ j = Len(attempts)
      /\ k < max_retries
      /\ \A i \in 1..k : attempts[i].failed /\ attempts[i].n = i
      /\ attempts[j].n = k + 1
      /\ pc # "scrape"
      /\ response.kind # "ScrapeError"
      /\ fetched # << >>
      /\ content = << BuildPage(fetched[1].doc, fetched[1].res) >>
      /\ LogGained = [i \in 1..k |-> [attempt |-> i, url |-> url]]

C4_Witness ==
  /\ ScrapeReturned
  /\ Len(attempts) = 3
  /\ max_retries = 3
  /\ Len(LogGained) = 2
  /\ pc = "done"
  /\ response.kind = "ScrapedPage"

\* C5: when every attempt fails, scrape_website makes exactly max_retries
\* attempts, appends one error-log line per failed attempt, and only then
\* fails with ScrapeError; while attempts remain it neither raises
\* ScrapeError nor surfaces the failure of an attempt.
C5_ExhaustedRetries ==
  /\ Len(LogGained) = Cardinality({ i \in 1..Len(attempts) : attempts[i].failed })
  /\ response.kind = "ScrapeError" =>
       /\ Len(attempts) = max_retries
       /\ \A i \in 1..Len(attempts) : attempts[i].failed
       /\ Len(LogGained) = max_retries
  /\ (pc # "scrape" /\ response.kind # "ValidationError"
      /\ caller \in {"scrape_website", "clone_website"})
     => \/ ScrapeReturned
        \/ Len(attempts) = max_retries /\ response.kind = "ScrapeError"
  /\ pc = "scrape" => response.kind = "none"

C5_Witness ==
  /\ response = ScrapeError
  /\ max_retries = 3
  /\ Len(attempts) = 3
  /\ Len(LogGained) = 3

\* C6: the timeout bounds the whole of every attempt, the stylesheet GETs
\* included: no attempt lasts longer than timeout, and an attempt that
\* reaches the timeout is a failed attempt.
C6_HardTimeout ==
  \A i \in 1..Len(attempts) :
    /\ attempts[i].duration <= timeout
    /\ attempts[i].duration = timeout => attempts[i].failed

\* the stylesheet GETs of the attempt whose page GET succeeded
FailedStylesheets ==
  { i \in DOMAIN fetched[1].res : fetched[1].res[i].status \in {"non200", "exception"} }

RECURSIVE LoadedCss(_, _)
\* the text of the stylesheets that loaded, each followed by a newline
LoadedCss(links, res) ==
  IF links = << >> THEN << >>
  ELSE Cat(IF res[1].status = "ok" THEN Cat(links[1].text, NL) ELSE << >>,
           LoadedCss(Tail(links), Tail(res)))

\* C7: stylesheet GETs that raise or are not 200 never abort the attempt:
\* an attempt whose page GET succeeded returns a page made of the document
\* and of the stylesheets that loaded, adds no line to the error log and
\* uses up no retry.
C7_StylesheetFailuresAbsorbed ==
  \A j \in 1..Len(attempts) :
    attempts[j].page =>
      /\ ~attempts[j].failed
      /\ j = Len(attempts)
      /\ attempt = attempts[j].n
      /\ Len(LogGained) = j - 1
      /\ content # << >>
      /\ content[1].content = fetched[1].doc.content
      /\ content[1].styles =
           Take(Cat(DEFAULT_IMG_CSS,
                    Cat(InlineCss(fetched[1].doc.styles),
                        LoadedCss(fetched[1].doc.links, fetched[1].res))),
                MAX_CSS_LENGTH)

C7_Witness ==
  /\ attempts # << >>
  /\ attempts[Len(attempts)].page
  /\ attempts[Len(attempts)].cssFailures > 0
  /\ FailedStylesheets # {}
  /\ content # << >>
  /\ pc = "done"

\* C8: the styles of every page scrape_website returns are at most 10,000
\* characters long, and are exactly the first 10,000 characters of the
\* collected css when that is longer.
C8_StylesCapped ==
  (ScrapeReturned /\ content # << >> /\ fetched # << >>) =>
    LET css == CollectCss(fetched[1].doc, fetched[1].res) IN
    /\ StrLen(content[1].styles) <= 10000
    /\ StrLen(css) > 10000 =>
         /\ StrLen(content[1].styles) = 10000
         /\ content[1].styles = Take(css, 10000)

C8_Witness ==
  /\ ScrapeReturned
  /\ fetched # << >>
  /\ fetched[1].doc = DocLinked
  /\ StrLen(CollectCss(fetched[1].doc, fetched[1].res)) > 10000
  /\ StrLen(content[1].styles) = 10000

StoreUntouched ==
  /\ htmlFiles = storeStart[1]
  /\ metaFiles = storeStart[2]
  /\ clone_id = 0

\* C9: in clone_website a generated html of more than 1,000,000 UTF-8 bytes
\* is rejected as too large, with neither the html file nor the metadata
\* file written; one of 1,000,000 bytes or fewer passes the size gate.
C9_SizeGate ==
  (caller = "clone_website" /\ clone # << >> /\ pc \notin {"generate", "gate"}) =>
    /\ Utf8Len(clone[1]) > 1000000 => response = OversizeError /\ StoreUntouched
    /\ Utf8Len(clone[1]) <= 1000000 =>
         /\ response.kind # "OversizeError"
         /\ pc \in {"save_html", "save_meta"} \/ clone_id # 0

C9_Witness ==
  /\ caller = "clone_website"
  /\ clone # << >>
  /\ Utf8Len(clone[1]) = 1000001
  /\ response = OversizeError
  /\ pc = "done"

\* C10: when is_valid_url is false for the submitted url, clone_website
\* ends at once with a validation error: no fetch attempt, no generation
\* call, no error-log line and no write to the clone store.
C10_InvalidUrlShortCircuits ==
  (caller = "clone_website" /\ ~is_valid_url(url)) =>
    /\ pc = "done"
    /\ response = ValidationError
    /\ attempts = << >>
    /\ fetched = << >>
    /\ content = << >>
    /\ calls = << >>
    /\ clone = << >>
    /\ errorLog = SubSeq(errorLog, 1, logStart)
    /\ StoreUntouched

C10_Witness ==
  /\ caller = "clone_website"
  /\ url = UrlMetadata
  /\ ~is_valid_url(url)
  /\ response = ValidationError
  /\ pc = "done"

\* the stages of clone_website, in order
PipelineStages == << "validate", "extract", "generate", "size gate", "save" >>

\* C11: a clone_website call that returns success has saved exactly once:
\* one html file and one metadata file were created, both named by the id
\* of the returned record, the html stored under that id is the html
\* returned, and the stages ran in the order validate, extract, generate,
\* size gate, save, each begun only after the one before succeeded.
C11_OneSavePerSuccess ==
  /\ caller = "clone_website" =>
       /\ Len(stages) <= Len(PipelineStages)
       /\ stages = SubSeq(PipelineStages, 1, Len(stages))
       /\ Len(stages) >= 2 => is_valid_url(url)
       /\ Len(stages) >= 3 => ScrapeReturned /\ content # << >>
       /\ Len(stages) >= 4 => calls[Len(calls)].ok /\ clone # << >>
       /\ Len(stages) >= 5 => Utf8Len(clone[1]) <= 1000000
  /\ response.kind = "Success" =>
       /\ caller = "clone_website"
       /\ stages = PipelineStages
       /\ Len(returned) = 1
       /\ LET id == returned[1].metadata.id IN
          /\ id = clone_id
          /\ DOMAIN htmlFiles = DOMAIN storeStart[1] \cup {id}
          /\ DOMAIN metaFiles = DOMAIN storeStart[2] \cup {id}
          /\ id \notin DOMAIN storeStart[1]
          /\ id \notin DOMAIN storeStart[2]
          /\ \A i \in DOMAIN storeStart[1] : htmlFiles[i] = storeStart[1][i]
          /\ \A i \in DOMAIN storeStart[2] : metaFiles[i] = storeStart[2][i]
          /\ returned[1].metadata.filename = [stem |-> id, ext |-> "html"]
          /\ returned[1].metadata.url = url
          /\ htmlFiles[id] = returned[1].html
          /\ json_load(metaFiles[id]) = << returned[1].metadata >>
          /\ returned[1].html = clone[1]

C11_Witness ==
  /\ response.kind = "Success"
  /\ Len(returned) = 1
  /\ storeStart[1] # EmptyFiles
  /\ Cardinality(DOMAIN htmlFiles) = 2
  /\ Cardinality(DOMAIN metaFiles) = 2

\* C20: in the degraded retry the content and the styles put in the prompt
\* are each at most 10,000 characters long and are prefixes of the page's
\* content and styles; for a page made by scrape_website the styles are
\* within the cap already, so the prompt of the retry differs from that of
\* the first call only when the content is longer than 10,000 characters.
C20_DegradedPrompt ==
  (Len(calls) = 2 /\ content # << >>) =>
    LET first == calls[1].prompt
        retry == calls[2].prompt
        page  == content[1]
    IN  /\ BothFlags(calls[2])
        /\ StrLen(retry.content) <= 10000
        /\ StrLen(retry.styles) <= 10000
        /\ retry.content = Take(page.content, StrLen(retry.content))
        /\ retry.styles = Take(page.styles, StrLen(retry.styles))
        /\ StrLen(page.content) <= 10000 => retry.content = page.content
        /\ StrLen(page.styles) <= 10000 => retry.styles = page.styles
        /\ caller = "clone_website" =>
             /\ StrLen(page.styles) <= 10000
             /\ retry.styles = first.styles
             /\ retry # first => StrLen(page.content) > 10000

C20_Witness ==
  /\ caller = "clone_website"
  /\ Len(calls) = 2
  /\ StrLen(content[1].content) > 10000
  /\ calls[2].prompt # calls[1].prompt
  /\ StrLen(calls[2].prompt.content) = 10000

\* ------------------------------------------------------------------------
\* The clone store: save_clone calls that interleave, then preview_clone or
\* get_history
\* ------------------------------------------------------------------------
MaxSaves == 3

\* save_clone calls that run at the same time, and that fail, at most
MaxRunning == 2
MaxFailed == 1

\* the number of save_clone calls in the given state
InState(state) == Cardinality({ p \in 1..Len(saves) : saves[p].state = state })

\* the html given to save_clone: without and with carriage returns
HtmlPlain == Run("-", 3)
HtmlCrLf  == FromChars(<< "a", "\r", "\n", "b" >>)

\* one save_clone call of a run may get the html with carriage returns
Htmls == IF \E p \in 1..Len(saves) : saves[p].html = HtmlCrLf
         THEN { HtmlPlain } ELSE { HtmlPlain, HtmlCrLf }

\* save_clone writes the metadata first
SaveStepsMetaFirst == << "open_meta", "write_meta", "open_html", "write_html" >>

\* lines 285-300: the writes of save_clone, in order
SaveSteps == << "open_html", "write_html", "open_meta", "write_meta" >>

NoQuery == readResult = << >> /\ history = << >> /\ listing.pc # "failed"

\* lines 274-281: a save_clone call starts and draws its identifier
StartSave(u, html) ==
  /\ NoQuery
  /\ Len(saves) < MaxSaves
  /\ InState("running") < MaxRunning
  /\ issued' = issued + 1
  /\ saves' = Append(saves, [url |-> u, html |-> html, id |-> issued + 1,
                             pc |-> 1, ts |-> 0, state |-> "running"])
  /\ UNCHANGED << now, htmlFiles, metaFiles, clone_id, readResult, history, listing,
                  requestVars, pureVars >>

\* line 292: what datetime.now() can give the save_clone call p, which
\* reads the clock before it opens the metadata file
ClockReadings(p) ==
  IF saves[p].pc <= Len(SaveSteps) /\ SaveSteps[saves[p].pc] = "open_meta"
  THEN {now, now + 1} ELSE {now}

\* io.DEFAULT_BUFFER_SIZE: open() of line 298 buffers this many characters
BUFFER_SIZE == 8192

\* a url too long for the buffer
UrlLong == [scheme |-> "https",
            hostname |-> << "e", "x", "a", "m", "p", "l", "e", ".", "c", "o", "m" >>,
            path |-> Run("a", BUFFER_SIZE)]

UrlLen(u) == Len(u.hostname) + (IF "path" \in DOMAIN u THEN StrLen(u.path) ELSE 0)

\* lines 298-299: the pieces of the text that json.dump passes to the file
\* before it is closed: none while the buffer can hold them, else those up
\* to the url, with which the buffer overflows
WrittenBeforeClose(metadata) ==
  IF UrlLen(metadata.url) >= BUFFER_SIZE THEN 3 ELSE 0

\* lines 285-303: the next write of the save_clone call p; after the last
\* one it returns its metadata
SaveStep(p, ts) ==
  LET save == saves[p]
      step == SaveSteps[save.pc]
      text == json_dump(Metadata(save.id, save.url, save.ts))
      n == IF metaFiles[save.id] = << >> /\ WrittenBeforeClose(Metadata(save.id, save.url, save.ts)) > 0
           THEN WrittenBeforeClose(Metadata(save.id, save.url, save.ts))
           ELSE JsonLen
      written == step # "write_meta" \/ n = JsonLen
      last == save.pc = Len(SaveSteps) /\ written
  IN  /\ NoQuery
      /\ save.state = "running"
      /\ htmlFiles' = CASE step = "open_html" -> (save.id :> << >>) @@ htmlFiles
                        [] step = "write_html" -> (save.id :> WriteText(save.html)) @@ htmlFiles
                        [] OTHER -> htmlFiles
      /\ metaFiles' = CASE step = "open_meta" -> (save.id :> << >>) @@ metaFiles
                        [] step = "write_meta" ->
                             (save.id :> SubSeq(text, 1, n)) @@ metaFiles
                        [] OTHER -> metaFiles
      /\ now' = IF step = "open_meta" THEN ts ELSE now
      /\ saves' = [saves EXCEPT ![p] =
                     [@ EXCEPT !.pc = IF written THEN @ + 1 ELSE @,
                               !.ts = IF step = "open_meta" THEN ts ELSE @,
                               !.state = IF last THEN "returned" ELSE "running"]]
      /\ UNCHANGED << issued, clone_id, readResult, history, listing, requestVars, pureVars >>

\* lines 304-306, or the process dies: the save_clone call p ends where it is
SaveFails(p) ==
  /\ NoQuery
  /\ saves[p].state = "running"
  /\ InState("failed") < MaxFailed
  /\ saves' = [saves EXCEPT ![p].state = "failed"]
  /\ UNCHANGED << storeVars, readResult, history, listing, requestVars, pureVars >>

\* lines 363-379, called while no save_clone call is running
preview_clone(filename) ==
  /\ NoQuery
  /\ saves # << >>
  /\ InState("running") = 0
  /\ readResult' =
       << IF filename.stem \notin DOMAIN htmlFiles
          THEN [filename |-> filename, status |-> 404, html |-> << >>]
          ELSE [filename |-> filename, status |-> 200,
                html |-> ReadText(htmlFiles[filename.stem])] >>
  /\ UNCHANGED << saves, history, listing, storeVars, requestVars, pureVars >>

CodePoint(c) ==
  IF c = "." THEN 46 ELSE 47 + (CHOOSE i \in 1..Len(Digits) : Digits[i] = c)

RECURSIVE StrLess(_, _)
\* a < b for two strings
StrLess(a, b) ==
  IF b = << >> THEN FALSE
  ELSE IF a = << >> THEN TRUE
  ELSE IF a[1] = b[1] THEN StrLess(Tail(a), Tail(b))
  ELSE CodePoint(a[1]) < CodePoint(b[1])

\* the sort is ascending
KeyBeforeAscending(a, b) == StrLess(a, b)

\* line 357, reverse=True: the key a is put before the key b
KeyBefore(a, b) == StrLess(b, a)

RECURSIVE Insert(_, _)
\* rec put into the sorted list, after the records it is not put before
Insert(rec, sorted) ==
  IF sorted = << >> THEN << rec >>
  ELSE IF KeyBefore(rec.timestamp, sorted[1].timestamp) THEN << rec >> \o sorted
  ELSE << sorted[1] >> \o Insert(rec, Tail(sorted))

RECURSIVE Sort(_)
\* line 357: list.sort is stable
Sort(list) ==
  IF list = << >> THEN << >>
  ELSE Insert(list[Len(list)], Sort(SubSeq(list, 1, Len(list) - 1)))

\* the orders in which glob can yield the files of S
Orders(S) ==
  { f \in [1..Cardinality(S) -> S] : \A i, j \in 1..Cardinality(S) : f[i] = f[j] => i = j }

RECURSIVE Load(_)
\* lines 346-354: the metadata of the files that json.load can read, in the
\* order of the files
Load(files) ==
  IF files = << >> THEN << >>
  ELSE json_load(metaFiles[files[1]]) \o Load(Tail(files))

\* lines 341-361, called while no save_clone call is running
get_history(order) ==
  /\ NoQuery
  /\ saves # << >>
  /\ InState("running") = 0
  /\ history' = << Sort(Load(order)) >>
  /\ UNCHANGED << saves, readResult, listing, storeVars, requestVars, pureVars >>

StoreInit ==
  /\ Idle
  /\ EmptyStore
  /\ logStart = 0
  /\ storeStart = << htmlFiles, metaFiles >>
  /\ PureIdle
  /\ SavesIdle

StoreNext ==
  \/ \E html \in Htmls : StartSave(UrlExample, html)
  \/ \E p \in 1..Len(saves) : \E ts \in ClockReadings(p) : SaveStep(p, ts)
  \/ \E p \in 1..Len(saves) : SaveFails(p)
  \/ \E id \in 1..issued : preview_clone(FileName(id, "html"))
  \/ \E order \in Orders(DOMAIN metaFiles) : get_history(order)

StoreSpec == StoreInit /\ [][StoreNext]_vars

\* ------------------------------------------------------------------------
\* get_history, file by file, while save_clone calls run
\* ------------------------------------------------------------------------
\* line 346: glob finds the metadata files there are
Glob ==
  /\ NoQuery
  /\ listing.pc = "idle"
  /\ saves # << >>
  /\ listing' = [pc |-> "reading", files |-> DOMAIN metaFiles,
                 read |-> << >>, loaded |-> << >>]
  /\ UNCHANGED << saves, readResult, history, storeVars, requestVars, pureVars >>

\* lines 346-354: glob yields the file, which is read as it is now; a file
\* that json.load cannot read is passed over
LoadFile(file) ==
  /\ NoQuery
  /\ listing.pc = "reading"
  /\ file \in listing.files
  /\ listing' = [listing EXCEPT
                   !.files = @ \ {file},
                   !.read = Append(@, [file |-> file, text |-> metaFiles[file]]),
                   !.loaded = @ \o json_load(metaFiles[file])]
  /\ UNCHANGED << saves, readResult, history, storeVars, requestVars, pureVars >>

\* lines 356-361: the records are sorted and returned; a record without a
\* timestamp makes the sort raise KeyError, and the call fail
SortAndReturn ==
  /\ NoQuery
  /\ listing.pc = "reading"
  /\ listing.files = {}
  /\ IF \A k \in 1..Len(listing.loaded) : "timestamp" \in DOMAIN listing.loaded[k]
     THEN /\ history' = << Sort(listing.loaded) >>
          /\ listing' = [listing EXCEPT !.pc = "done"]
     ELSE /\ history' = history
          /\ listing' = [listing EXCEPT !.pc = "failed"]
  /\ UNCHANGED << saves, readResult, storeVars, requestVars, pureVars >>

\* save_clone calls made while get_history is observed, at most
MaxListedSaves == 2

ListNext ==
  \/ \E u \in {UrlExample, UrlLong} : Len(saves) < MaxListedSaves /\ StartSave(u, HtmlPlain)
  \/ \E p \in 1..Len(saves) : \E ts \in ClockReadings(p) : SaveStep(p, ts)
  \/ Glob
  \/ \E file \in listing.files : LoadFile(file)
  \/ SortAndReturn

ListSpec == StoreInit /\ [][ListNext]_vars

\* the save_clone call that drew the identifier id
SaveOf(id) == CHOOSE p \in 1..Len(saves) : saves[p].id = id

AllReturned == \A p \in 1..Len(saves) : saves[p].state = "returned"

\* C12: save_clone(url, html) followed by preview_clone of the filename of
\* its record returns exactly html, whatever other save_clone calls were
\* made before the read.
C12_RoundTrip ==
  readResult # << >> =>
    \A p \in 1..Len(saves) :
      (saves[p].state = "returned"
         /\ readResult[1].filename = FileName(saves[p].id, "html")) =>
        /\ readResult[1].status = 200
        /\ readResult[1].html = saves[p].html

\* C13: from an empty store, get_history after n save_clone calls that all
\* returned gives exactly n records, the one of each call once, the later
\* clock reading first.
C13_HistoryAfterSaves ==
  (history # << >> /\ storeStart = << EmptyFiles, EmptyFiles >> /\ AllReturned) =>
    LET h == history[1] IN
    /\ Len(h) = Len(saves)
    /\ \A p \in 1..Len(saves) :
         Cardinality({ k \in 1..Len(h) :
                         h[k] = Metadata(saves[p].id, saves[p].url, saves[p].ts) }) = 1
    /\ \A k \in 1..Len(h) : \A l \in 1..Len(h) :
         k < l => saves[SaveOf(h[k].id)].ts >= saves[SaveOf(h[l].id)].ts

C13_Witness ==
  /\ history # << >>
  /\ AllReturned
  /\ Len(saves) = 3
  /\ Len(history[1]) = 3
  /\ history[1][1].id = 3
  /\ history[1][2].id = 1
  /\ history[1][1].timestamp # history[1][2].timestamp
  /\ history[1][2].timestamp = history[1][3].timestamp

\* C14: the html is written before the metadata, so in every state of the
\* store, after a save_clone call failed or died between its writes too,
\* each metadata file has its html file, fully written; get_history returns
\* only records that have a metadata file, hence no html file without
\* metadata, and the html file of each record it returns is there.
C14_HtmlBeforeMetadata ==
  /\ \A id \in DOMAIN metaFiles :
       /\ id \in DOMAIN htmlFiles
       /\ \E p \in 1..Len(saves) :
            saves[p].id = id /\ htmlFiles[id] = WriteText(saves[p].html)
  /\ history # << >> =>
       \A k \in 1..Len(history[1]) :
         LET rec == history[1][k] IN
         /\ rec.id \in DOMAIN metaFiles
         /\ json_load(metaFiles[rec.id]) = << rec >>
         /\ rec.filename.stem \in DOMAIN htmlFiles
         /\ htmlFiles[rec.filename.stem] # << >>

C14_Witness ==
  /\ history # << >>
  /\ Len(history[1]) = 1
  /\ \E p \in 1..Len(saves) :
       /\ saves[p].state = "failed"
       /\ saves[p].id \in DOMAIN htmlFiles
       /\ saves[p].id \notin DOMAIN metaFiles
       /\ htmlFiles[saves[p].id] = WriteText(saves[p].html)

\* C15: however save_clone calls interleave, each draws an identifier of
\* its own, the files of a call that returned stay as it wrote them, and
\* once all calls are over preview_clone of the filename of each record
\* returns the html that call was given.
C15_ConcurrentSaves ==
  /\ \A p \in 1..Len(saves) : \A q \in 1..Len(saves) :
       p # q => saves[p].id # saves[q].id
  /\ \A p \in 1..Len(saves) :
       saves[p].state = "returned" =>
         /\ htmlFiles[saves[p].id] = WriteText(saves[p].html)
         /\ json_load(metaFiles[saves[p].id])
              = << Metadata(saves[p].id, saves[p].url, saves[p].ts) >>
  /\ (readResult # << >> /\ InState("running") = 0) =>
       \A p \in 1..Len(saves) :
         (saves[p].state = "returned"
            /\ readResult[1].filename.stem = saves[p].id) =>
           readResult[1].html = saves[p].html

\* C16: extract_html_from_ai_response is idempotent on a fenced code block
\* that contains only html, a doctype or a comment before the html tag
\* included: applying it to its own result gives that result again.
C16_ExtractIdempotent ==
  (op = "extract_html_from_ai_response" /\ arg \in FencedInputs /\ Len(results) = 2) =>
    results[2] = results[1]

\* the runs i..j of s are a maximal stretch of base64-alphabet characters
Base64Stretch(s, i, j) ==
  /\ i <= j
  /\ \A k \in i..j : s[k].c \in Base64Chars
  /\ i = 1 \/ s[i - 1].c \notin Base64Chars
  /\ j = Len(s) \/ s[j + 1].c \notin Base64Chars

\* the text r occurs in the text s
Occurs(r, s) ==
  \E k \in 1..(Len(s) - Len(r) + 1) :
    /\ s[k].c = r[1].c
    /\ s[k + Len(r) - 1].c = r[Len(r)].c
    /\ IF Len(r) = 1 THEN s[k].n >= r[1].n
       ELSE /\ s[k].n >= r[1].n
            /\ s[k + Len(r) - 1].n >= r[Len(r)].n
            /\ \A m \in 2..(Len(r) - 1) : s[k + m - 1] = r[m]

\* C17: when the input holds a run of 1200 base64-alphabet characters, the
\* output of clean_generated_html, all its substitutions applied in their
\* order, does not hold that run.
C17_LongRunRemoved ==
  (op = "clean_generated_html" /\ failAt = 0 /\ results # << >>) =>
    \A i \in 1..Len(arg) : \A j \in 1..Len(arg) :
      (Base64Stretch(arg, i, j) /\ StrLen(SubSeq(arg, i, j)) = 1200) =>
        ~Occurs(SubSeq(arg, i, j), results[1])

\* C18: clean_generated_html returns a value for every input, and when one
\* of its substitutions fails the value is the input, unchanged.
C18_CleanTotal ==
  (op = "clean_generated_html" /\ results # << >>) =>
    (failAt # 0 => results[1] = arg)

\* the hostname starts with 10., 172.16. to 172.31., 192.168., 127. or
\* 169.254.
PrivateHost(hostname) ==
  \/ StartsWith(hostname, << "1", "0", "." >>)
  \/ \E second \in 16..31 :
       StartsWith(hostname, << "1", "7", "2", "." >> \o DigitsOf(second, 2) \o << "." >>)
  \/ StartsWith(hostname, << "1", "9", "2", ".", "1", "6", "8", "." >>)
  \/ StartsWith(hostname, << "1", "2", "7", "." >>)
  \/ StartsWith(hostname, << "1", "6", "9", ".", "2", "5", "4", "." >>)

\* C19: is_valid_url returns true exactly when the scheme is http or https,
\* there is a hostname, it is not localhost and it starts with none of the
\* private prefixes; in every other case it returns false.
C19_ValidateRule ==
  (op = "is_valid_url" /\ results # << >>) =>
    /\ results[1].raised = "none"
    /\ results[1].value[1] =
         LET parsed == urlparse(arg) IN
         /\ parsed.scheme \in {"http", "https"}
         /\ parsed.hostname # << >>
         /\ parsed.hostname # << "l", "o", "c", "a", "l", "h", "o", "s", "t" >>
         /\ ~PrivateHost(parsed.hostname)

\* the fields of a record of get_history
RecordFields == {"id", "url", "timestamp", "filename"}

\* C21: get_history run file by file while save_clone calls are running
\* never fails, and what it returns are whole records: each has the four
\* fields id, url, timestamp and filename as one save_clone call wrote them,
\* a metadata file that it read before the file was fully written gives no
\* record, and a file that it read whole gives exactly one.
C21_ListDuringSaves ==
  /\ listing.pc # "failed"
  /\ listing.pc = "done" =>
       LET h == history[1] IN
       /\ \A k \in 1..Len(h) :
            /\ DOMAIN h[k] = RecordFields
            /\ \E p \in 1..Len(saves) :
                 h[k] = Metadata(saves[p].id, saves[p].url, saves[p].ts)
       /\ \A r \in 1..Len(listing.read) :
            LET file == listing.read[r].file
                save == saves[SaveOf(file)]
                whole == json_dump(Metadata(save.id, save.url, save.ts))
                records == { k \in 1..Len(h) : h[k].id = file }
            IN  IF listing.read[r].text = whole
                THEN Cardinality(records) = 1
                ELSE records = {}

\* get_history returned one record and passed over a metadata file of which
\* only the first characters were in the file when it was read
C21_Witness ==
  /\ listing.pc = "done"
  /\ Len(history[1]) = 1
  /\ \E r \in 1..Len(listing.read) :
       /\ listing.read[r].text # << >>
       /\ Len(listing.read[r].text) < JsonLen
       /\ saves[SaveOf(listing.read[r].file)].state = "running"

====
